---- MODULE Spec2Model ----
(***************************************************************************)
(* Model of dashboard.py: the Streamlit page run (module-level script) and *)
(* the three dataframe computations it contains: the top-10 ranking by the *)
(* selected metric, the describe() summary, and get_priority_states.       *)
(*                                                                         *)
(* Numbers are exact fractions <<n, d>> with d > 0; <<0, 0>> is NaN (the   *)
(* result pandas gives for 0.0 / 0.0 and for a missing cell).              *)
(***************************************************************************)
EXTENDS Integers, Sequences, FiniteSets, TLC

VARIABLES
    pc,               \* position of the script / of the call under test
    bound,            \* module-level dataset names bound so far
    merged_map,       \* the dataset: [isNone, df]; df maps column name -> row -> cell
    metric,           \* the selected metric (st.selectbox) / the requested column
    metrics_arg,      \* the metric list passed to get_priority_states
    html_data,        \* "unset", "html" or "None": result of load_map_from_s3
    rankings,         \* the top-10 table
    stats,            \* <<>> or <<the four figures shown by st.metric>>
    priority_states,  \* the table returned by get_priority_states
    error,            \* the exception that ended the run/call, or "none"
    st_errors,        \* messages passed to st.error so far
    before,           \* the dataset as it was when the last operation started
    op                \* the last dataframe operation attempted

vars == <<pc, bound, merged_map, metric, metrics_arg, html_data, rankings, stats,
          priority_states, error, st_errors, before, op>>

-----------------------------------------------------------------------------
(* Bounds of the model *)

NumRows == 2
MaxVal == 2

(* Program constants *)

HeadRankings == 10
HeadPriority == 5

Rows == 1..NumRows

\* Two of the five keys of the metrics dictionary / metrics_list: one health
\* metric and one food-access metric.
MetricNames == {"OBESITY_CrudePrev", "PCT_LACCESS_POP15"}

\* Names a caller may request: the metrics and one name that is never a column.
RequestNames == MetricNames \cup {"nonexistent"}

AggregateColumn == "aggregate_score"

-----------------------------------------------------------------------------
(* Floating-point cells as exact fractions *)

NaN == <<0, 0>>

IsNaN(x) == x[2] = 0 /\ x[1] = 0

Num(v) == <<v, 1>>

FLt(a, b) == a[1] * b[2] < b[1] * a[2]

FEq(a, b) == a[1] * b[2] = b[1] * a[2]

FLe(a, b) == a[1] * b[2] <= b[1] * a[2]

FAdd(a, b) ==
    IF IsNaN(a) \/ IsNaN(b) THEN NaN
    ELSE <<a[1] * b[2] + b[1] * a[2], a[2] * b[2]>>

FSub(a, b) ==
    IF IsNaN(a) \/ IsNaN(b) THEN NaN
    ELSE <<a[1] * b[2] - b[1] * a[2], a[2] * b[2]>>

\* x / 0 is NaN for x = 0 and +-inf (<<+-1, 0>>) otherwise.
FDiv(a, b) ==
    IF IsNaN(a) \/ IsNaN(b) THEN NaN
    ELSE IF b[1] = 0 THEN (IF a[1] = 0 THEN NaN
                           ELSE IF a[1] > 0 THEN <<1, 0>> ELSE <<-1, 0>>)
    ELSE IF b[1] > 0 THEN <<a[1] * b[2], a[2] * b[1]>>
    ELSE <<-(a[1] * b[2]), -(a[2] * b[1])>>

Cells == {Num(v) : v \in 0..MaxVal} \cup {NaN}

\* Every dataset the GeoJSON file can hold: any subset of the metric columns,
\* one row per state (the row number stands for the STATE code).
Datasets == UNION {[S -> [Rows -> Cells]] : S \in SUBSET MetricNames}

NoFrame == [c \in {} |-> [r \in Rows |-> NaN]]

None == [isNone |-> TRUE, df |-> NoFrame]

Frame(df) == [isNone |-> FALSE, df |-> df]

-----------------------------------------------------------------------------
(* pandas Series / DataFrame operations used by the script *)

Min2(a, b) == IF a <= b THEN a ELSE b

DefinedRows(col) == {r \in Rows : ~IsNaN(col[r])}

\* Series.min(): NaN cells are skipped; NaN when no cell is defined.
SeriesMin(col) ==
    IF DefinedRows(col) = {} THEN NaN
    ELSE LET r0 == CHOOSE r \in DefinedRows(col) :
                       \A q \in DefinedRows(col) : FLe(col[r], col[q])
         IN  col[r0]

\* Series.max(): NaN cells are skipped; NaN when no cell is defined.
SeriesMax(col) ==
    IF DefinedRows(col) = {} THEN NaN
    ELSE LET r0 == CHOOSE r \in DefinedRows(col) :
                       \A q \in DefinedRows(col) : FLe(col[q], col[r])
         IN  col[r0]

RECURSIVE FSum(_, _)
\* Sum of f[x] over the finite set S.
FSum(f, S) ==
    IF S = {} THEN Num(0)
    ELSE LET x == CHOOSE y \in S : TRUE
         IN  FAdd(f[x], FSum(f, S \ {x}))

\* Series.mean(): NaN cells are skipped; NaN when no cell is defined.
SeriesMean(col) ==
    IF DefinedRows(col) = {} THEN NaN
    ELSE FDiv(FSum(col, DefinedRows(col)), Num(Cardinality(DefinedRows(col))))

\* The defined cells of a column in ascending order.
AscendingValues(col) ==
    LET k == Cardinality(DefinedRows(col))
        p == CHOOSE q \in [1..k -> DefinedRows(col)] :
                 /\ \A i, j \in 1..k : i # j => q[i] # q[j]
                 /\ \A i, j \in 1..k : i < j => FLe(col[q[i]], col[q[j]])
    IN  [i \in 1..k |-> col[p[i]]]

\* The 50% quantile with linear interpolation, NaN cells skipped.
SeriesMedian(col) ==
    LET k == Cardinality(DefinedRows(col))
        v == AscendingValues(col)
    IN  IF k = 0 THEN NaN
        ELSE IF k % 2 = 1 THEN v[(k + 1) \div 2]
        ELSE FDiv(FAdd(v[k \div 2], v[k \div 2 + 1]), Num(2))

\* Series.describe(): the entries the page reads.
Describe(col) ==
    [count  |-> Cardinality(DefinedRows(col)),
     mean   |-> SeriesMean(col),
     median |-> SeriesMedian(col),
     max    |-> SeriesMax(col),
     min    |-> SeriesMin(col)]

\* sort_values(by=.., ascending=False) with the defaults kind='quicksort',
\* na_position='last': the defined cells in non-increasing order, then the rows
\* with NaN in their original order.  quicksort is not a stable sort, so every
\* order of rows with equal values is a possible outcome.
SortValuesDescending(col) ==
    LET k == Cardinality(DefinedRows(col))
    IN  {p \in [1..NumRows -> Rows] :
            /\ \A i, j \in 1..NumRows : i # j => p[i] # p[j]
            /\ \A i \in 1..k : ~IsNaN(col[p[i]])
            /\ \A i, j \in 1..k : i < j => FLe(col[p[j]], col[p[i]])
            /\ \A i, j \in (k + 1)..NumRows : i < j => p[i] < p[j]}

\* DataFrame.head(n) of the two-column frame [['STATE', c]] in the order p.
HeadRows(p, col, n) ==
    [i \in 1..Min2(n, NumRows) |-> [STATE |-> p[i], value |-> col[p[i]]]]

\* f"{x:.1f}" and Series.round(1).astype(str): one decimal, ties to even;
\* a NaN prints as "nan".
Format1(x) ==
    IF IsNaN(x) THEN [nan |-> TRUE, tenths |-> 0]
    ELSE LET q == (10 * x[1]) \div x[2]
             r == (10 * x[1]) % x[2]
         IN  [nan |-> FALSE,
              tenths |-> IF 2 * r < x[2] THEN q
                         ELSE IF 2 * r > x[2] THEN q + 1
                         ELSE IF q % 2 = 0 THEN q ELSE q + 1]

\* df[c] = col
SetColumn(df, c, col) ==
    [x \in (DOMAIN df) \cup {c} |-> IF x = c THEN col ELSE df[x]]

-----------------------------------------------------------------------------
(* get_priority_states *)

\* (data[m] - data[m].min()) / (data[m].max() - data[m].min())
NormalizedColumn(col) ==
    LET mn == SeriesMin(col)
        mx == SeriesMax(col)
    IN  [r \in Rows |-> FDiv(FSub(col[r], mn), FSub(mx, mn))]

\* NormalizeStep with the column lookup made silent: a name that is not a
\* column is skipped instead of raising.
NormalizeStepSkipsUnknown(data, acc, m) ==
    IF acc.err # "none" THEN acc
    ELSE IF m \notin DOMAIN data THEN acc
    ELSE [err |-> "none",
          frame |-> [x \in (DOMAIN acc.frame) \cup {m} |->
                        IF x = m
                        THEN [r \in Rows |->
                                 IF IsNaN(data[m][r]) THEN NaN
                                 ELSE FDiv(FSub(data[m][r], SeriesMin(data[m])),
                                           FSub(SeriesMax(data[m]), SeriesMin(data[m])))]
                        ELSE acc.frame[x]]]

\* One iteration of "for m in metrics": data[m] raises KeyError when m is not
\* a column; the exception leaves the loop.
NormalizeStep(data, acc, m) ==
    IF acc.err # "none" THEN acc
    ELSE IF m \notin DOMAIN data THEN [err |-> "KeyError", frame |-> acc.frame]
    ELSE [err |-> "none",
          frame |-> SetColumn(acc.frame, m, NormalizedColumn(data[m]))]

RECURSIVE NormalizeLoop(_, _, _)
\* normalized_scores after the first i metrics of the list.
NormalizeLoop(data, metrics, i) ==
    IF i = 0 THEN [err |-> "none", frame |-> NoFrame]
    ELSE NormalizeStep(data, NormalizeLoop(data, metrics, i - 1), metrics[i])

\* MeanAxis1 with sum(axis=1) in place of mean(axis=1).
MeanAxis1AsSum(frame) ==
    [r \in Rows |->
        LET S == {c \in DOMAIN frame : ~IsNaN(frame[c][r])}
            row == [c \in DOMAIN frame |-> frame[c][r]]
        IN  IF S = {} THEN NaN ELSE FSum(row, S)]

\* normalized_scores.mean(axis=1): per row, the mean of the cells that are not
\* NaN; NaN when the row has none.
MeanAxis1(frame) ==
    [r \in Rows |->
        LET S == {c \in DOMAIN frame : ~IsNaN(frame[c][r])}
            row == [c \in DOMAIN frame |-> frame[c][r]]
        IN  IF S = {} THEN NaN
            ELSE FDiv(FSum(row, S), Num(Cardinality(S)))]

\* The body of get_priority_states(data, metrics); data is the caller's frame
\* object (held in merged_map), so "data['aggregate_score'] = ..." writes to it.
GetPriorityStates(data, metrics) ==
    \E loop \in {NormalizeLoop(data, metrics, Len(metrics))} :
        IF loop.err # "none"
        THEN /\ error' = loop.err
             /\ UNCHANGED <<merged_map, priority_states>>
        ELSE \E score \in {MeanAxis1(loop.frame)} :
                 /\ error' = "none"
                 /\ merged_map' = Frame(SetColumn(data, AggregateColumn, score))
                 /\ \E p \in SortValuesDescending(score) :
                        priority_states' = HeadRows(p, score, HeadPriority)

-----------------------------------------------------------------------------
(* The page run: the module-level statements of dashboard.py, top to bottom *)

Init ==
    /\ pc = "load"
    /\ bound = {}
    /\ merged_map = None
    /\ metric = "unset"
    /\ metrics_arg = <<>>
    /\ html_data = "unset"
    /\ rankings = <<>>
    /\ stats = <<>>
    /\ priority_states = <<>>
    /\ error = "none"
    /\ st_errors = <<>>
    /\ before = None
    /\ op = "none"

\* merged_map = load_data_from_s3(): the except branch reports through
\* st.error and returns None.
LoadData ==
    /\ pc = "load"
    /\ \/ /\ \E df \in Datasets : merged_map' = Frame(df)
          /\ UNCHANGED st_errors
       \/ /\ merged_map' = None
          /\ st_errors' = Append(st_errors, "Error loading data")
    /\ bound' = bound \cup {"merged_map"}
    /\ pc' = "select"
    /\ UNCHANGED <<metric, metrics_arg, html_data, rankings, stats,
                   priority_states, error, before, op>>

\* metric = st.selectbox(..., options=list(metrics.keys()))
SelectMetric ==
    /\ pc = "select"
    /\ \E m \in MetricNames : metric' = m
    /\ pc' = "map"
    /\ UNCHANGED <<bound, merged_map, metrics_arg, html_data, rankings, stats,
                   priority_states, error, st_errors, before, op>>

\* html_data = load_map_from_s3(metric), then the if/else that renders it.
LoadMap ==
    /\ pc = "map"
    /\ \/ /\ html_data' = "html"
          /\ UNCHANGED st_errors
       \/ /\ html_data' = "None"
          /\ st_errors' = st_errors \o <<"Error loading map", "Unable to load map data">>
    /\ pc' = "rankings"
    /\ UNCHANGED <<bound, merged_map, metric, metrics_arg, rankings, stats,
                   priority_states, error, before, op>>

\* "Top 10 States": merged_map[['STATE', metric]].sort_values(...).head(10),
\* then the metric column rewritten as rounded text.  Subscripting None raises
\* TypeError, a missing column KeyError; nothing catches either.
Rankings ==
    /\ pc = "rankings"
    /\ op' = "rankings"
    /\ before' = merged_map
    /\ IF merged_map.isNone
       THEN /\ error' = "TypeError"
            /\ pc' = "crashed"
            /\ UNCHANGED rankings
       ELSE IF metric \notin DOMAIN merged_map.df
       THEN /\ error' = "KeyError"
            /\ pc' = "crashed"
            /\ UNCHANGED rankings
       ELSE /\ \E col \in {merged_map.df[metric]} :
                \E p \in SortValuesDescending(col) :
                  rankings' =
                      [i \in 1..Min2(HeadRankings, NumRows) |->
                          [STATE |-> p[i], value |-> Format1(col[p[i]])]]
            /\ pc' = "stats"
            /\ UNCHANGED error
    /\ UNCHANGED <<bound, merged_map, metric, metrics_arg, html_data, stats,
                   priority_states, st_errors>>

\* "Summary Statistics": merged_map[metric].describe() and the four st.metric
\* figures formatted with :.1f.
Stats ==
    /\ pc = "stats"
    /\ op' = "describe"
    /\ before' = merged_map
    /\ LET d == Describe(merged_map.df[metric])
       IN  stats' = <<[Mean    |-> Format1(d.mean),
                       Median  |-> Format1(d.median),
                       Maximum |-> Format1(d.max),
                       Minimum |-> Format1(d.min)]>>
    /\ pc' = "priority"
    /\ UNCHANGED <<bound, merged_map, metric, metrics_arg, html_data, rankings,
                   priority_states, error, st_errors>>

\* priority_states = get_priority_states(merged_map_extended, metrics_list):
\* the argument is evaluated first, and no statement of the script binds the
\* name merged_map_extended, so the call is never entered and the statements
\* after it (the impact analysis) never run.
PriorityStates ==
    /\ pc = "priority"
    /\ "merged_map_extended" \notin bound
    /\ error' = "NameError"
    /\ pc' = "crashed"
    /\ UNCHANGED <<bound, merged_map, metric, metrics_arg, html_data, rankings,
                   stats, priority_states, st_errors, before, op>>

Next ==
    \/ LoadData
    \/ SelectMetric
    \/ LoadMap
    \/ Rankings
    \/ Stats
    \/ PriorityStates

Spec == Init /\ [][Next]_vars

-----------------------------------------------------------------------------
(* The three computations called on their own, on every dataset and request *)

\* The non-empty lists of distinct names a caller may pass as metrics.
MetricLists ==
    {ms \in UNION {[1..n -> RequestNames] : n \in 1..Cardinality(MetricNames)} :
        \A i, j \in DOMAIN ms : i # j => ms[i] # ms[j]}

InitAgg ==
    /\ pc = "call"
    /\ bound = {"merged_map"}
    /\ merged_map \in {Frame(df) : df \in Datasets}
    /\ metric = "unset"
    /\ metrics_arg = <<>>
    /\ html_data = "unset"
    /\ rankings = <<>>
    /\ stats = <<>>
    /\ priority_states = <<>>
    /\ error = "none"
    /\ st_errors = <<>>
    /\ before = merged_map
    /\ op = "none"

\* data[['STATE', m]].sort_values(by=m, ascending=False).head(10)
CallRankings ==
    /\ pc = "call"
    /\ \E m \in RequestNames :
          /\ metric' = m
          /\ IF m \notin DOMAIN merged_map.df
             THEN /\ error' = "KeyError"
                  /\ UNCHANGED rankings
             ELSE /\ \E col \in {merged_map.df[m]} :
                      \E p \in SortValuesDescending(col) :
                        rankings' = HeadRows(p, col, HeadRankings)
                  /\ UNCHANGED error
    /\ op' = "rankings"
    /\ before' = merged_map
    /\ pc' = "returned"
    /\ UNCHANGED <<bound, merged_map, metrics_arg, html_data, stats,
                   priority_states, st_errors>>

\* data[m].describe()
CallDescribe ==
    /\ pc = "call"
    /\ \E m \in RequestNames :
          /\ metric' = m
          /\ IF m \notin DOMAIN merged_map.df
             THEN /\ error' = "KeyError"
                  /\ UNCHANGED stats
             ELSE /\ stats' = <<Describe(merged_map.df[m])>>
                  /\ UNCHANGED error
    /\ op' = "describe"
    /\ before' = merged_map
    /\ pc' = "returned"
    /\ UNCHANGED <<bound, merged_map, metrics_arg, html_data, rankings,
                   priority_states, st_errors>>

\* get_priority_states(data, metrics)
CallGetPriorityStates ==
    /\ pc = "call"
    /\ \E ms \in MetricLists :
          /\ metrics_arg' = ms
          /\ GetPriorityStates(merged_map.df, ms)
    /\ op' = "get_priority_states"
    /\ before' = merged_map
    /\ pc' = "returned"
    /\ UNCHANGED <<bound, metric, html_data, rankings, stats, st_errors>>

NextAgg ==
    \/ CallRankings
    \/ CallDescribe
    \/ CallGetPriorityStates

SpecAgg == InitAgg /\ [][NextAgg]_vars

-----------------------------------------------------------------------------
(* Properties *)

Returned(o) == pc = "returned" /\ op = o

Requested == {metrics_arg[i] : i \in DOMAIN metrics_arg}

\* The requested metrics for which row r has a defined value in the input.
DefinedMetrics(r) == {m \in Requested : ~IsNaN(before.df[m][r])}

\* A column with at least one defined cell whose defined cells are all equal.
ZeroVariance(col) ==
    /\ DefinedRows(col) # {}
    /\ \A r, q \in DefinedRows(col) : FEq(col[r], col[q])

InUnit(x) == x[2] > 0 /\ 0 <= x[1] /\ x[1] <= x[2]

\* C1: once the load has failed (merged_map is None), the run has surfaced the
\* error and no dataframe operation is ever attempted.
C1_NoOperationOnAbsentDataset ==
    ("merged_map" \in bound /\ merged_map.isNone) =>
        /\ \E i \in DOMAIN st_errors : st_errors[i] = "Error loading data"
        /\ op = "none"

\* C2: after get_priority_states returns, the dataset it was given has the
\* same columns and the same cells as before the call.
C2_InputUnchanged ==
    (Returned("get_priority_states") /\ error = "none") => merged_map = before

\* C3: when a requested metric has zero variance over its defined values, the
\* call ends in an explicit DegenerateMetric outcome: the error, or a constant
\* contribution that gives every row with a value for that metric a defined
\* score; the metric's term is never silently dropped.
C3_DegenerateMetricIsExplicit ==
    (/\ Returned("get_priority_states")
     /\ Requested \subseteq DOMAIN before.df
     /\ \E m \in Requested : ZeroVariance(before.df[m])) =>
        \/ error = "DegenerateMetric"
        \/ /\ error = "none"
           /\ \A m \in Requested : ZeroVariance(before.df[m]) =>
                 \A r \in DefinedRows(before.df[m]) :
                     ~IsNaN(merged_map.df[AggregateColumn][r])

\* C4: a top-N table holds no row whose value is undefined and has at most
\* min(n, number of rows with a defined value) rows, for the top 10 by metric
\* and for the top 5 by aggregate score.
C4_TopNExcludesUndefined ==
    /\ (Returned("rankings") /\ error = "none") =>
          /\ \A i \in DOMAIN rankings : ~IsNaN(rankings[i].value)
          /\ Len(rankings) <=
                 Min2(HeadRankings, Cardinality(DefinedRows(before.df[metric])))
    /\ (Returned("get_priority_states") /\ error = "none") =>
          /\ \A i \in DOMAIN priority_states : ~IsNaN(priority_states[i].value)
          /\ Len(priority_states) <=
                 Min2(HeadPriority,
                      Cardinality(DefinedRows(merged_map.df[AggregateColumn])))

DescendingStable(table) ==
    \A i, j \in DOMAIN table :
        (i < j /\ ~IsNaN(table[i].value) /\ ~IsNaN(table[j].value)) =>
            \/ FLt(table[j].value, table[i].value)
            \/ /\ FEq(table[j].value, table[i].value)
               /\ table[i].STATE < table[j].STATE

\* C5: a ranking is in descending order of value and rows with equal value
\* keep the relative order they have in the dataset.
C5_DescendingWithStableTies ==
    /\ (Returned("rankings") /\ error = "none") => DescendingStable(rankings)
    /\ (Returned("get_priority_states") /\ error = "none") =>
          DescendingStable(priority_states)

\* The requested metrics that contribute a term to row r: the row has a value
\* and the metric can be normalized.
Contributing(r) ==
    {m \in DefinedMetrics(r) : ~ZeroVariance(before.df[m])}

ClaimTerm(m, r) ==
    FDiv(FSub(before.df[m][r], SeriesMin(before.df[m])),
         FSub(SeriesMax(before.df[m]), SeriesMin(before.df[m])))

\* C7: for every row, the score is the sum of (value - min_m) / (max_m - min_m)
\* over exactly the requested metrics for which the row has a value, divided by
\* the number of those metrics.
C7_MeanOverDefinedMetrics ==
    (Returned("get_priority_states") /\ error = "none") =>
        \A r \in Rows : DefinedMetrics(r) # {} =>
            LET terms == [m \in DefinedMetrics(r) |-> ClaimTerm(m, r)]
                mean == FDiv(FSum(terms, DefinedMetrics(r)),
                             Num(Cardinality(DefinedMetrics(r))))
            IN  /\ \A m \in DefinedMetrics(r) : ~IsNaN(terms[m])
                /\ ~IsNaN(merged_map.df[AggregateColumn][r])
                /\ FEq(merged_map.df[AggregateColumn][r], mean)

\* The call named a metric that is not a column of the dataset.
UnknownRequested ==
    \/ /\ op \in {"rankings", "describe"}
       /\ metric \notin DOMAIN before.df
    \/ /\ op = "get_priority_states"
       /\ ~(Requested \subseteq DOMAIN before.df)

\* C8: when a requested metric is not a column, the ranking, the summary and
\* the score computation fail at once (KeyError is the code's UnknownMetric),
\* produce no result and leave the dataset as it was.
C8_UnknownMetricFailsFast ==
    (pc = "returned" /\ UnknownRequested) =>
        /\ error = "KeyError"
        /\ merged_map = before
        /\ rankings = <<>>
        /\ stats = <<>>
        /\ priority_states = <<>>

\* get_priority_states has normalized a first, valid metric when the second
\* name turns out not to be a column.
C8_Witness ==
    /\ Returned("get_priority_states")
    /\ Len(metrics_arg) = 2
    /\ metrics_arg[1] \in DOMAIN before.df
    /\ DefinedRows(before.df[metrics_arg[1]]) # {}
    /\ metrics_arg[2] \notin DOMAIN before.df
    /\ error = "KeyError"

\* C9: when no row has a value for the selected metric, the summary fails with
\* EmptyMetric and no figures are displayed.
C9_EmptyMetricFails ==
    (op = "describe" /\ DefinedRows(before.df[metric]) = {}) =>
        /\ error = "EmptyMetric"
        /\ stats = <<>>

\* C10: no step of the run reads a dataset name that was never bound, so the
\* run does not end in a NameError.
C10_EveryReadIsBound == error # "NameError"

====
